---- MODULE Spec2Model ----
(***************************************************************************)
(* The ledger (market/ledger.py), the Exchange derived from it by full and *)
(* incremental replay (market/exchange.py) and the trade flow of the bot   *)
(* (discord_bot/trade.py).  Money is counted in cents.                     *)
(***************************************************************************)
EXTENDS Integers, Sequences, FiniteSets, TLC

VARIABLES
    entries,            \* Ledger.entries
    file,               \* the text of Ledger.file
    _markets,           \* Exchange._markets: market id -> Market
    _users,             \* Exchange._users: user id -> User
    _discord_user_ids,  \* Exchange._discord_user_ids: discord id -> user id
    _ledger_index,      \* Exchange._ledger_index
    views,              \* the TradeView of each trade session
    now,                \* datetime.now(timezone.utc)
    outcome             \* how the last operation ended: returned or raised

vars == <<entries, file, _markets, _users, _discord_user_ids, _ledger_index, views, now, outcome>>

exchange == <<_markets, _users, _discord_user_ids, _ledger_index>>

(***************************************************************************)
(* Bounds and input domains                                                *)
(***************************************************************************)
MaxAppend == 2          \* events appended to the ledger after start-up
MaxTime == 1            \* the clock runs over 0..MaxTime
MaxClicks == 3          \* button presses, all trade sessions together
MaxShares == 3          \* a replay that raised is tried again up to this inventory

UserIds == {1, 2}
MarketIds == {1, 2}
UserNames == {"ann", "bob"}
DiscordIds == {7, 8}
NoDiscordId == 0        \* discord_id "" of a user not linked to an account
Times == 0..MaxTime

EmptyMap == [x \in {} |-> 0]

NoError == "none"

(***************************************************************************)
(* Events: the dictionaries the writers hand to Ledger.append              *)
(***************************************************************************)
UserUpdateEvent(user_id, user_name, discord_id) ==
    [type |-> "user_update", user_id |-> user_id, user_name |-> user_name,
     discord_id |-> discord_id]

BalanceUpdateEvent(user_id, delta, old_balance, new_balance) ==
    [type |-> "balance_update", user_id |-> user_id, delta |-> delta,
     old_balance |-> old_balance, new_balance |-> new_balance]

UserTradeEvent(user_id, market_id, share_type, quantity, cost, old_balance, new_balance) ==
    [type |-> "user_trade", user_id |-> user_id, market_id |-> market_id,
     share_type |-> share_type, quantity |-> quantity, cost |-> cost,
     old_balance |-> old_balance, new_balance |-> new_balance]

\* the legacy import writes trades and resolutions with the same payload
LegacyEvent(type, user_id, market_id, share_type, quantity, cost, old_balance, new_balance) ==
    [type |-> type, user_id |-> user_id, market_id |-> market_id,
     share_type |-> share_type, quantity |-> quantity, cost |-> cost,
     old_balance |-> old_balance, new_balance |-> new_balance]

MarketUpdateEvent(market_id, question, open_date, close_date, liquidity, status) ==
    [type |-> "market_update", market_id |-> market_id, question |-> question,
     open_date |-> open_date, close_date |-> close_date, liquidity |-> liquidity,
     status |-> status]

(***************************************************************************)
(* The ledger file. Its text is a sequence of tokens: the JSON text of a   *)
(* value, or a line break. A line parses when it is the text of one value. *)
(***************************************************************************)
Newline == [kind |-> "newline"]

\* text that is not the JSON text of a value, such as a part of a record
Torn == [kind |-> "text"]

json_dumps(value) == [kind |-> "json", value |-> value]

\* json_loads(line): JSONDecodeError on an empty line ("Expecting value") and
\* on a line with more than the text of one value ("Extra data")
json_loads(line) ==
    IF Len(line) = 1 /\ line[1].kind = "json"
    THEN [raised |-> NoError, value |-> line[1].value]
    ELSE [raised |-> "JSONDecodeError", value |-> EmptyMap]

\* str.splitlines: the text between the line breaks; what follows the last
\* line break is a line only if it is not empty
RECURSIVE SplitLoop(_, _, _, _)
SplitLoop(text, i, line, lines) ==
    IF i > Len(text) THEN (IF line = <<>> THEN lines ELSE Append(lines, line))
    ELSE IF text[i] = Newline THEN SplitLoop(text, i + 1, <<>>, Append(lines, line))
    ELSE SplitLoop(text, i + 1, Append(line, text[i]), lines)

splitlines(text) == SplitLoop(text, 1, <<>>, <<>>)

NoFile == [exists |-> FALSE, text |-> <<>>]
FileOf(text) == [exists |-> TRUE, text |-> text]

\* Ledger.from_json: a file that does not exist is created empty; else
\* every line of the file is parsed
from_json(f) ==
    LET lines == splitlines(f.text)
    IN IF ~f.exists
       THEN [raised |-> NoError, at |-> 0, entries |-> <<>>, file |-> FileOf(<<>>)]
       ELSE IF \E i \in 1..Len(lines) : json_loads(lines[i]).raised # NoError
       THEN [raised |-> "JSONDecodeError",
             at |-> CHOOSE i \in 1..Len(lines) :
                       /\ json_loads(lines[i]).raised # NoError
                       /\ \A j \in 1..(i - 1) : json_loads(lines[j]).raised = NoError,
             entries |-> <<>>, file |-> f]
       ELSE [raised |-> NoError, at |-> 0,
             entries |-> [i \in 1..Len(lines) |-> json_loads(lines[i]).value],
             file |-> f]

\* an event that keeps the number it came with
Stamped_asis(es, event, t) == event @@ [num |-> Len(es), timestamp |-> t]

\* Ledger.append: the event is copied, numbered with the length of the
\* entries and stamped with the time
Stamped(es, event, t) == [num |-> Len(es), timestamp |-> t] @@ event

\* an append that puts the entry first
LedgerAppend_first(es, event, t) ==
    <<json_loads(<<json_dumps(Stamped(es, event, t))>>).value>> \o es

\* Ledger.append: what json_loads reads from the JSON text of the event is
\* added at the end of the entries
LedgerAppend(es, event, t) ==
    Append(es, json_loads(<<json_dumps(Stamped(es, event, t))>>).value)

\* an append that adds its entry although the write raised
FailedAppend_kept(es, event, t) == LedgerAppend(es, event, t)

\* Ledger.append when f.write (or the open before it) raises OSError: the
\* exception leaves the method before self.entries.append
FailedAppend(es, event, t) == es

\* what a write that raised has left in the file: nothing, or a part of the
\* record
FailedWrites == { <<>>, <<Torn>> }

\* Ledger.append: the JSON text and a line break are written at the end of
\* the file
FileAppend(f, es, event, t) ==
    FileOf(f.text \o <<json_dumps(Stamped(es, event, t)), Newline>>)

\* the file the legacy import writes: "\n".join(json_lines)
RECURSIVE Joined(_)
Joined(es) ==
    IF es = <<>> THEN <<>>
    ELSE IF Len(es) = 1 THEN <<json_dumps(es[1])>>
    ELSE <<json_dumps(es[1]), Newline>> \o Joined(Tail(es))

LegacyFile(es) == FileOf(Joined(es))

(***************************************************************************)
(* Full replay: Exchange.from_ledger                                       *)
(***************************************************************************)
Shares(no, yes) == [no |-> no, yes |-> yes]

Raise(st, error, i) == [st EXCEPT !.raised = error, !.at = i]

NewMarket(info) ==
    [id |-> info.market_id, question |-> info.question,
     open_date |-> info.open_date, close_date |-> info.close_date,
     liquidity |-> info.liquidity, _status |-> info.status,
     shares |-> Shares(0, 0)]

MarketStatuses == {"open", "closed", "resolved_yes", "resolved_no"}

\* first loop of _markets_from_ledger: newest market_update of each market
RECURSIVE MarketsDataLoop(_, _, _)
MarketsDataLoop(es, i, st) ==
    IF i = 0 \/ st.raised # NoError THEN st
    ELSE IF es[i].type # "market_update" THEN MarketsDataLoop(es, i - 1, st)
    ELSE IF es[i].market_id \in DOMAIN st.markets THEN MarketsDataLoop(es, i - 1, st)
    ELSE IF es[i].status \notin MarketStatuses THEN Raise(st, "ValueError", i)
    ELSE MarketsDataLoop(es, i - 1,
            [st EXCEPT !.markets = @ @@ (es[i].market_id :> NewMarket(es[i]))])

\* second loop of _markets_from_ledger: the shares, over reversed(entries)
RECURSIVE MarketsSharesLoop(_, _, _)
MarketsSharesLoop(es, i, st) ==
    IF i = 0 \/ st.raised # NoError THEN st
    ELSE IF es[i].type # "trade" THEN MarketsSharesLoop(es, i - 1, st)
    ELSE IF es[i].market_id \notin DOMAIN st.markets THEN Raise(st, "KeyError", i)
    ELSE LET m == es[i].market_id
             old == st.markets[m].shares
             new == IF es[i].share_type = "No"
                    THEN Shares(old.no + es[i].quantity, old.yes)
                    ELSE Shares(old.no, old.yes + es[i].quantity)
         IN IF new.no < 0 \/ new.yes < 0 THEN Raise(st, "AssertionError", i)
            ELSE MarketsSharesLoop(es, i - 1, [st EXCEPT !.markets[m].shares = new])

markets_from_ledger(es) ==
    MarketsSharesLoop(es, Len(es),
        MarketsDataLoop(es, Len(es), [raised |-> NoError, at |-> 0, markets |-> EmptyMap]))

\* int(info["discord_id"]) of the id the ledger holds, a JSON integer
PyInt(discord_id) == discord_id

\* first loop of _users_from_ledger: newest user_update of each user
RECURSIVE UsersDataLoop(_, _, _)
UsersDataLoop(es, i, st) ==
    IF i = 0 \/ st.raised # NoError THEN st
    ELSE IF es[i].type # "user_update" THEN UsersDataLoop(es, i - 1, st)
    ELSE IF es[i].user_id \in DOMAIN st.users THEN UsersDataLoop(es, i - 1, st)
    ELSE LET user == [id |-> es[i].user_id, user_name |-> es[i].user_name,
                      balance |-> 0, positions |-> EmptyMap]
             users == st.users @@ (es[i].user_id :> user)
             discord == IF es[i].discord_id # NoDiscordId
                        THEN (PyInt(es[i].discord_id) :> es[i].user_id) @@ st.discord
                        ELSE st.discord
         IN UsersDataLoop(es, i - 1, [st EXCEPT !.users = users, !.discord = discord])

PositionOf(user, market_id) ==
    IF market_id \in DOMAIN user.positions THEN user.positions[market_id] ELSE Shares(0, 0)

SetPosition(user, market_id, shares) ==
    [user EXCEPT !.positions = (market_id :> shares) @@ @]

\* second loop of _users_from_ledger: balances and positions, in ledger order
RECURSIVE UsersBalanceLoop(_, _, _)
UsersBalanceLoop(es, i, st) ==
    IF i > Len(es) \/ st.raised # NoError THEN st
    ELSE IF es[i].type = "balance_update" THEN
        IF es[i].user_id \notin DOMAIN st.users THEN Raise(st, "KeyError", i)
        ELSE UsersBalanceLoop(es, i + 1,
                [st EXCEPT !.users[es[i].user_id].balance = es[i].new_balance])
    ELSE IF es[i].type \in {"trade", "resolution"} THEN
        IF es[i].user_id \notin DOMAIN st.users THEN Raise(st, "KeyError", i)
        ELSE LET u == es[i].user_id
                 old == PositionOf(st.users[u], es[i].market_id)
                 new == IF es[i].share_type = "Yes"
                        THEN Shares(old.no, old.yes + es[i].quantity)
                        ELSE Shares(old.no + es[i].quantity, old.yes)
             IN IF new.no < 0 \/ new.yes < 0 THEN Raise(st, "AssertionError", i)
                ELSE UsersBalanceLoop(es, i + 1,
                        [st EXCEPT !.users[u] =
                            [SetPosition(@, es[i].market_id, new)
                                EXCEPT !.balance = es[i].new_balance]])
    ELSE UsersBalanceLoop(es, i + 1, st)

users_from_ledger(es) ==
    UsersBalanceLoop(es, 1,
        UsersDataLoop(es, Len(es),
            [raised |-> NoError, at |-> 0, users |-> EmptyMap, discord |-> EmptyMap]))

\* Exchange.from_ledger: the markets first, then the users; an exception of
\* either leaves no Exchange
from_ledger(es) ==
    LET ms == markets_from_ledger(es)
        us == users_from_ledger(es)
    IN IF ms.raised # NoError
       THEN [raised |-> ms.raised, at |-> ms.at, markets |-> EmptyMap,
             users |-> EmptyMap, discord |-> EmptyMap, index |-> 0]
       ELSE IF us.raised # NoError
       THEN [raised |-> us.raised, at |-> us.at, markets |-> EmptyMap,
             users |-> EmptyMap, discord |-> EmptyMap, index |-> 0]
       ELSE [raised |-> NoError, at |-> 0, markets |-> ms.markets,
             users |-> us.users, discord |-> us.discord, index |-> Len(es)]

(***************************************************************************)
(* The copy of the replay in src/src/exchange.py: its                      *)
(* _markets_from_ledger. Shares is the tuple (No, Yes)                     *)
(***************************************************************************)
\* first loop: a market recorded as open is closed after its close_date
RECURSIVE src_MarketsDataLoop(_, _, _, _)
src_MarketsDataLoop(es, i, st, t) ==
    IF i = 0 \/ st.raised # NoError THEN st
    ELSE IF es[i].type # "market_update" THEN src_MarketsDataLoop(es, i - 1, st, t)
    ELSE IF es[i].market_id \in DOMAIN st.markets THEN src_MarketsDataLoop(es, i - 1, st, t)
    ELSE IF es[i].status \notin MarketStatuses THEN Raise(st, "ValueError", i)
    ELSE LET recorded == IF es[i].status = "open" /\ es[i].close_date < t
                         THEN "closed" ELSE es[i].status
             market == [id |-> es[i].market_id, question |-> es[i].question,
                        open_date |-> es[i].open_date, close_date |-> es[i].close_date,
                        liquidity |-> es[i].liquidity, status |-> recorded,
                        shares |-> Shares(0, 0)]
         IN src_MarketsDataLoop(es, i - 1,
                [st EXCEPT !.markets = @ @@ (es[i].market_id :> market)], t)

\* second loop: `yes_shares, no_shares = markets[market_id].shares` takes
\* the No count for yes_shares, and Shares(yes_shares, no_shares) puts it
\* back as the No count
RECURSIVE src_MarketsSharesLoop(_, _, _)
src_MarketsSharesLoop(es, i, st) ==
    IF i = 0 \/ st.raised # NoError THEN st
    ELSE IF es[i].type # "trade" THEN src_MarketsSharesLoop(es, i - 1, st)
    ELSE IF es[i].market_id \notin DOMAIN st.markets THEN Raise(st, "KeyError", i)
    ELSE LET m == es[i].market_id
             yes_shares == st.markets[m].shares.no
                           + (IF es[i].share_type = "Yes" THEN es[i].quantity ELSE 0)
             no_shares == st.markets[m].shares.yes
                          + (IF es[i].share_type = "Yes" THEN 0 ELSE es[i].quantity)
         IN IF (IF es[i].share_type = "Yes" THEN yes_shares ELSE no_shares) < 0
            THEN Raise(st, "AssertionError", i)
            ELSE src_MarketsSharesLoop(es, i - 1,
                    [st EXCEPT !.markets[m].shares = Shares(yes_shares, no_shares)])

src_markets_from_ledger(es, t) ==
    src_MarketsSharesLoop(es, Len(es),
        src_MarketsDataLoop(es, Len(es),
            [raised |-> NoError, at |-> 0, markets |-> EmptyMap], t))

(***************************************************************************)
(* Incremental replay: Exchange.update_from_extended_ledger                *)
(***************************************************************************)
\* a user_update that makes every user anew
ApplyUserUpdate_anew(st, info) ==
    LET user == [id |-> info.user_id, user_name |-> info.user_name,
                 balance |-> 0, positions |-> EmptyMap]
    IN [st EXCEPT !.users = (info.user_id :> user) @@ @]

\* case "user_update": a new User object takes the place of the old one,
\* which stays as it is for whoever still holds it (orphans)
ApplyUserUpdate(st, info) ==
    LET known == info.user_id \in DOMAIN st.users
        user == [id |-> info.user_id, user_name |-> info.user_name,
                 balance |-> IF known THEN st.users[info.user_id].balance ELSE 0,
                 positions |-> IF known THEN st.users[info.user_id].positions ELSE EmptyMap]
        orphans == IF known /\ info.user_id \notin DOMAIN st.orphans
                   THEN st.orphans @@ (info.user_id :> st.users[info.user_id])
                   ELSE st.orphans
        discord == IF info.discord_id # NoDiscordId
                   THEN (info.discord_id :> info.user_id) @@ st.discord
                   ELSE st.discord
    IN [st EXCEPT !.users = (info.user_id :> user) @@ @,
                  !.discord = discord, !.orphans = orphans]

\* case "balance_update"
ApplyBalanceUpdate(st, info, i) ==
    IF info.user_id \notin DOMAIN st.users THEN Raise(st, "KeyError", i)
    ELSE [st EXCEPT !.users[info.user_id].balance = info.new_balance]

\* case "trade": the balance is written before the share counts are checked
ApplyTrade(st, info, i) ==
    IF \/ info.user_id \notin DOMAIN st.users
       \/ info.market_id \notin DOMAIN st.markets
       \/ info.new_balance < 0
       \/ info.share_type \notin {"Yes", "No"}
    THEN Raise(st, "AssertionError", i)
    ELSE LET u == info.user_id
             m == info.market_id
             market == st.markets[m].shares
             position == PositionOf(st.users[u], m)
             q == info.quantity
             new_market == IF info.share_type = "No"
                           THEN Shares(market.no + q, market.yes)
                           ELSE Shares(market.no, market.yes + q)
             new_position == IF info.share_type = "No"
                             THEN Shares(position.no + q, position.yes)
                             ELSE Shares(position.no, position.yes + q)
             paid == [st EXCEPT !.users[u].balance = info.new_balance]
         IN IF new_market.no < 0 \/ new_market.yes < 0
               \/ new_position.no < 0 \/ new_position.yes < 0
            THEN Raise(paid, "AssertionError", i)
            ELSE [paid EXCEPT !.markets[m].shares = new_market,
                              !.users[u] = SetPosition(@, m, new_position)]

ApplyEntry(st, entry, i) ==
    CASE entry.type = "user_update" -> ApplyUserUpdate(st, entry)
      [] entry.type = "balance_update" -> ApplyBalanceUpdate(st, entry, i)
      [] entry.type = "trade" -> ApplyTrade(st, entry, i)
      [] OTHER -> Raise(st, "NotImplementedError", i)

RECURSIVE UpdateLoop(_, _, _)
UpdateLoop(es, i, st) ==
    IF i > Len(es) \/ st.raised # NoError THEN st
    ELSE UpdateLoop(es, i + 1, ApplyEntry(st, es[i], i))

\* an update that, when its loop raises, drops the users it has
update_from_extended_ledger_dropping(es, markets, users, discord, index) ==
    LET st == UpdateLoop(es, index + 1,
                [raised |-> NoError, at |-> 0, markets |-> markets, users |-> users,
                 discord |-> discord, orphans |-> EmptyMap])
    IN [raised |-> st.raised, at |-> st.at, markets |-> st.markets,
        users |-> IF st.raised = NoError THEN st.users ELSE EmptyMap,
        discord |-> st.discord, orphans |-> st.orphans,
        index |-> IF st.raised = NoError THEN Len(es) ELSE index]

\* the loop runs over entries[_ledger_index:]; the index moves only when
\* the loop ends without an exception
update_from_extended_ledger(es, markets, users, discord, index) ==
    LET st == UpdateLoop(es, index + 1,
                [raised |-> NoError, at |-> 0, markets |-> markets, users |-> users,
                 discord |-> discord, orphans |-> EmptyMap])
    IN [raised |-> st.raised, at |-> st.at, markets |-> st.markets,
        users |-> st.users, discord |-> st.discord, orphans |-> st.orphans,
        index |-> IF st.raised = NoError THEN Len(es) ELSE index]

\* the accessors markets, users and discord_user_ids
Accessor(es, markets, users, discord, index) ==
    IF index # Len(es)
    THEN update_from_extended_ledger(es, markets, users, discord, index)
    ELSE [raised |-> NoError, at |-> 0, markets |-> markets, users |-> users,
          discord |-> discord, orphans |-> EmptyMap, index |-> index]

(***************************************************************************)
(* The ledger the bot starts from, as the legacy import writes one, and    *)
(* the events later handed to Ledger.append                                *)
(***************************************************************************)
RECURSIVE LedgerOf(_, _)
LedgerOf(events, es) ==
    IF events = <<>> THEN es ELSE LedgerOf(Tail(events), LedgerAppend(es, Head(events), 0))

BaseLedger ==
    LedgerOf(<< UserUpdateEvent(1, "ann", NoDiscordId),
                BalanceUpdateEvent(1, 1000000, 0, 1000000),
                MarketUpdateEvent(1, "q", 0, MaxTime, 10, "open") >>, <<>>)

TradeInputs ==
    { LegacyEvent("trade", 1, 1, side, q, 0, 900000, 900000) :
        side \in {"Yes", "No"}, q \in {-2, -1, 1} }
    \cup { LegacyEvent("trade", 2, 1, "Yes", q, 0, 900000, 900000) : q \in {-1, 1} }
    \cup { LegacyEvent("trade", 1, 1, "Yes", 1, 500, 0, -500),
           LegacyEvent("trade", 1, 2, "Yes", 1, 0, 900000, 900000),
           LegacyEvent("resolution", 1, 1, "Yes", -1, -10000, 900000, 910000),
           UserTradeEvent(1, 1, "Yes", 1, 0, 900000, 900000) }

EventInputs ==
    { UserUpdateEvent(1, "ann", d) : d \in DiscordIds \cup {NoDiscordId} }
    \cup { UserUpdateEvent(1, "bob", NoDiscordId) }
    \cup { UserUpdateEvent(2, "bob", d) : d \in DiscordIds \cup {NoDiscordId} }
    \cup { BalanceUpdateEvent(1, -500, 0, -500),
           BalanceUpdateEvent(1, 900000, 0, 900000),
           BalanceUpdateEvent(2, 900000, 0, 900000) }
    \cup { MarketUpdateEvent(1, "r", 0, MaxTime, 10, "open"),
           MarketUpdateEvent(1, "q", 0, MaxTime, 10, "closed"),
           MarketUpdateEvent(1, "q", 0, MaxTime, 10, "resolved_yes"),
           MarketUpdateEvent(2, "q", 0, MaxTime, 10, "open") }
    \cup TradeInputs
    \cup { [type |-> "dividend", num |-> 7] }

Sessions == {1, 2}
NoView == [open |-> FALSE]

(***************************************************************************)
(* Replay: the ledger grows by Ledger.append, the Exchange is built by     *)
(* from_ledger and caught up by the accessors                              *)
(***************************************************************************)
Returned(op) == [op |-> op, raised |-> NoError, at |-> 0]
Ended(op, r) == [op |-> op, raised |-> r.raised, at |-> r.at]

\* a start-up that raised leaves no process
Alive == ~(outcome.op \in {"from_ledger", "from_json"} /\ outcome.raised # NoError)

Init ==
    /\ entries = BaseLedger
    /\ file = LegacyFile(BaseLedger)
    /\ _markets = from_ledger(BaseLedger).markets
    /\ _users = from_ledger(BaseLedger).users
    /\ _discord_user_ids = from_ledger(BaseLedger).discord
    /\ _ledger_index = from_ledger(BaseLedger).index
    /\ views = [s \in Sessions |-> NoView]
    /\ now = 0
    /\ outcome = Returned("from_ledger")

\* Ledger.append(event)
AppendEvent(event) ==
    /\ Alive
    /\ Len(entries) < Len(BaseLedger) + MaxAppend
    /\ entries' = LedgerAppend(entries, event, now)
    /\ file' = FileAppend(file, entries, event, now)
    /\ outcome' = Returned("append")
    /\ UNCHANGED <<exchange, views, now>>

\* Exchange.from_ledger(ledger) when the bot starts again
FromLedger ==
    /\ Alive
    /\ LET r == from_ledger(entries)
       IN /\ _markets' = r.markets
          /\ _users' = r.users
          /\ _discord_user_ids' = r.discord
          /\ _ledger_index' = r.index
          /\ outcome' = Ended("from_ledger", r)
    /\ UNCHANGED <<entries, file, views, now>>

\* a User object replaced by the replay stays, as it was, with the views
\* that hold it
KeepOrphans(vs, orphans) ==
    [s \in DOMAIN vs |->
        IF vs[s].open /\ vs[s].user_live /\ vs[s].user_id \in DOMAIN orphans
        THEN [vs[s] EXCEPT !.user_live = FALSE, !.user = orphans[vs[s].user_id]]
        ELSE vs[s]]

\* a replay that raised adds its trades again at every new try: the tries
\* stop at MaxShares
WithinShares ==
    \A m \in DOMAIN _markets :
        _markets[m].shares.no <= MaxShares /\ _markets[m].shares.yes <= MaxShares

Synced(op, r) ==
    /\ _markets' = r.markets
    /\ _users' = r.users
    /\ _discord_user_ids' = r.discord
    /\ _ledger_index' = r.index
    /\ views' = KeepOrphans(views, r.orphans)
    /\ outcome' = Ended(op, r)

Read(op) ==
    /\ Alive
    /\ WithinShares
    /\ Synced(op, Accessor(entries, _markets, _users, _discord_user_ids, _ledger_index))
    /\ UNCHANGED <<entries, file, now>>

ReadMarkets == Read("markets")
ReadUsers == Read("users")
ReadDiscordUserIds == Read("discord_user_ids")

\* a direct call of update_from_extended_ledger
UpdateFromExtendedLedger ==
    /\ Alive
    /\ WithinShares
    /\ Synced("update_from_extended_ledger",
              update_from_extended_ledger(entries, _markets, _users,
                                          _discord_user_ids, _ledger_index))
    /\ UNCHANGED <<entries, file, now>>

Next ==
    \/ \E event \in EventInputs : AppendEvent(event)
    \/ FromLedger
    \/ ReadMarkets
    \/ ReadUsers
    \/ ReadDiscordUserIds
    \/ UpdateFromExtendedLedger

Spec == Init /\ [][Next]_vars

(***************************************************************************)
(* Pricing (Market). exp and log go by table, with x = shares / liquidity  *)
(* counted in tenths: LogTable[t + 1] is 1000 * log(1 + exp(-t/10)) in     *)
(* millionths of a dollar, YesPriceTable[t + 1] the Yes price with t/10    *)
(* more Yes than No, in ten-thousandths of a percent. A float is an        *)
(* integer in such a unit, or Inf, -Inf or NaN.                            *)
(***************************************************************************)
Inf == 1000000000
NaN == 2000000000
LogTable ==
    << 693147181, 644396660, 598138869, 554355244, 513015252, 474076984,
       437487950, 403186049, 371100666, 341153875, 313261688, 287335325,
       263282467, 241008454, 220417410, 201413278, 183900741, 167786029,
       152977611, 139386758, 126928011, 115519523, 105083320, 95545465,
       86836152, 78889734, 71644692, 65043562, 59032826, 53562776,
       48587352, 44063968, 39953333, 36219259, 32828470, 29750418,
       26957093, 24422846, 22124216, 20039767, 18149928, 16436847,
       14884255, 13477330, 12202585, 11047745, 10001652, 9054164,
       8196067, 7418994, 6715348, 6078237, 5501404, 4979177,
       4506412, 4078443, 3691043, 3340380, 3022981, 2735699,
       2475685, 2240356, 2027374, 1834621, 1660178 >>

YesPriceTable ==
    << 500000, 524979, 549834, 574443, 598688, 622459,
       645656, 668188, 689974, 710950, 731059, 750260,
       768525, 785835, 802184, 817574, 832018, 845535,
       858149, 869892, 880797, 890903, 900250, 908877,
       916827, 924142, 930862, 937027, 942676, 947846,
       952574, 956893, 960834, 964429, 967705, 970688,
       973403, 975873, 978119, 980160, 982014, 983698,
       985226, 986613, 987872, 989013, 990048, 990987,
       991837, 992608, 993307, 993940, 994514, 995033,
       995504, 995930, 996316, 996665, 996982, 997268,
       997527, 997762, 997975, 998167, 998341 >>

Abs(x) == IF x < 0 THEN -x ELSE x
Max(a, b) == IF a >= b THEN a ELSE b

\* round(x, 2) of x = a / m dollars, as cents
RoundCents(a, m) ==
    IF a >= 0 THEN (2 * a + m) \div (2 * m) ELSE -((2 * (-a) + m) \div (2 * m))

\* float arithmetic where a value may be Inf, -Inf or NaN
FNeg(x) == IF x = NaN THEN NaN ELSE -x

FAdd(a, b) ==
    IF a = NaN \/ b = NaN THEN NaN
    ELSE IF Abs(a) = Inf THEN (IF b = -a THEN NaN ELSE a)
    ELSE IF Abs(b) = Inf THEN b
    ELSE a + b

FSub(a, b) == FAdd(a, FNeg(b))

IsFinite(x) == x # NaN /\ Abs(x) # Inf

\* shares / liquidity raises ZeroDivisionError for the liquidity 0
Division(liquidity) == IF liquidity = 0 THEN "ZeroDivisionError" ELSE NoError

\* exp(shares / liquidity) is float("inf"): math.exp raises OverflowError
\* above 709.78
Overflows(shares, liquidity) == 100 * shares > 70978 * liquidity

\* shares / liquidity in tenths, for a liquidity that divides 10 shares
Tenths(shares, liquidity) == (10 * shares) \div liquidity

\* from 36.9 on, 1 / (1 + exp(-x)) is the float 1.0
SaturatedTenths == 369
\* from 15 on, 1000 * log(1 + exp(-x)) is under a twentieth of a cent
NegligibleTenths == 150

\* 1000 * log(1 + exp(-t/10)) in millionths of a dollar
LogTerm(t) == IF t >= NegligibleTenths THEN 0 ELSE LogTable[t + 1]

\* liquidity * 100 * (log(exp(u1) + exp(v1)) - log(exp(u0) + exp(v0))) as
\* cents rounded, the exponents in tenths and the liquidity a divisor of
\* 100000: log(exp(u) + exp(v)) is max(u, v) + log(1 + exp(-|u - v|))
ScoreDifference(liquidity, u0, v0, u1, v1) ==
    1000 * liquidity * (Max(u1, v1) - Max(u0, v0))
    + RoundCents(LogTerm(Abs(u1 - v1)) - LogTerm(Abs(u0 - v0)), 100000 \div liquidity)

\* exp(yes) / (exp(yes) + exp(no)) by the difference t of the exponents, in
\* tenths
PriceOf(t) ==
    LET p == IF Abs(t) >= SaturatedTenths THEN 1000000 ELSE YesPriceTable[Abs(t) + 1]
    IN IF t >= 0 THEN p ELSE 1000000 - p

\* Market._yes_price for a liquidity above 0: inf / (inf + x) is nan, and
\* nan is neither < 0 nor > 1
yes_price(liquidity, shares) ==
    IF Overflows(shares.yes, liquidity) THEN NaN
    ELSE IF Overflows(shares.no, liquidity) THEN 0
    ELSE PriceOf(Tenths(shares.yes - shares.no, liquidity))

\* Market.no_price
no_price(liquidity, shares) == FSub(1000000, yes_price(liquidity, shares))

\* log(exp(yes / liquidity) + exp(no / liquidity)) is inf
ScoreOverflows(liquidity, shares) ==
    Overflows(shares.yes, liquidity) \/ Overflows(shares.no, liquidity)

\* Market.simulate_trade: round(inf, 2) is inf and round(nan, 2) is nan
simulate_trade(market, traded_shares) ==
    LET b == market.liquidity
        old == market.shares
        new == Shares(old.no + traded_shares.no, old.yes + traded_shares.yes)
        cost == IF ScoreOverflows(b, old)
                THEN (IF ScoreOverflows(b, new) THEN NaN ELSE -Inf)
                ELSE IF ScoreOverflows(b, new) THEN Inf
                ELSE ScoreDifference(b, Tenths(old.yes, b), Tenths(old.no, b),
                                     Tenths(new.yes, b), Tenths(new.no, b))
    IN IF Division(b) # NoError
       THEN [raised |-> Division(b), cost |-> 0, new_no_price |-> 0, new_yes_price |-> 0]
       ELSE [raised |-> NoError, cost |-> cost,
             new_no_price |-> no_price(b, new), new_yes_price |-> yes_price(b, new)]

\* Market.simulate_liquidation_proceeds. r = p_yes / (1.0 - p_yes) is
\* exp(x) for the difference x of the exponents, and raises
\* ZeroDivisionError when the price is the float 100.0; selling s Yes shares
\* costs b * log((r * exp(-s/b) + 1) / (r + 1)) * 100, selling s No shares
\* b * log((r + exp(-s/b)) / (r + 1)) * 100
simulate_liquidation_proceeds(market, user_shares) ==
    LET b == market.liquidity
        price == yes_price(b, market.shares)
        x == Tenths(market.shares.yes - market.shares.no, b)
        user_yes == Tenths(user_shares.yes, b)
        user_no == Tenths(user_shares.no, b)
        yes_proceeds == IF user_shares.yes # 0
                        THEN -ScoreDifference(b, x, 0, x - user_yes, 0) ELSE 0
        r == IF user_shares.yes # 0 THEN x - user_yes ELSE x
        no_proceeds == IF user_shares.no # 0
                       THEN -ScoreDifference(b, r, 0, r, -user_no) ELSE 0
    IN IF Division(b) # NoError THEN [raised |-> Division(b), value |-> 0]
       ELSE IF price = NaN
       THEN [raised |-> NoError,
             value |-> IF user_shares.yes # 0 \/ user_shares.no # 0 THEN NaN ELSE 0]
       ELSE IF price = 1000000 THEN [raised |-> "ZeroDivisionError", value |-> 0]
       ELSE [raised |-> NoError, value |-> yes_proceeds + no_proceeds]

(***************************************************************************)
(* Pricing (discord_bot/computation.py), from the Yes price alone          *)
(***************************************************************************)
\* log((1 - 1e-9) / 1e-9) is 20.7
ClampedTenths == 207

\* the greatest difference of exponents of YesPriceTable
TableTenths == Len(YesPriceTable) - 1

\* p_yes = max(1e-9, min(1.0 - 1e-9, p_yes_pct / 100)) and
\* r = p_yes / (1.0 - p_yes), as the x of r = exp(x) in tenths; min(a, nan)
\* is a
ClampedRatio(p_yes_pct) ==
    IF p_yes_pct = NaN \/ p_yes_pct = 1000000 THEN ClampedTenths
    ELSE IF p_yes_pct = 0 THEN -ClampedTenths
    ELSE CHOOSE x \in (-TableTenths)..TableTenths : PriceOf(x) = p_yes_pct

\* _sell_yes_proceeds_and_update_r
sell_yes_proceeds_and_update_r(r, b, s) ==
    IF s <= 0 \/ b <= 0 THEN [proceeds |-> 0, new_r |-> r]
    ELSE [proceeds |-> -ScoreDifference(b, r, 0, r - Tenths(s, b), 0),
          new_r |-> r - Tenths(s, b)]

\* _sell_no_proceeds_and_update_r
sell_no_proceeds_and_update_r(r, b, s) ==
    IF s <= 0 \/ b <= 0 THEN [proceeds |-> 0, new_r |-> r]
    ELSE [proceeds |-> -ScoreDifference(b, r, 0, r, -Tenths(s, b)),
          new_r |-> r + Tenths(s, b)]

\* computation.simulate_liquidation_proceeds: the two proceeds are whole
\* cents, and so is their sum before _round_cents
computation_simulate_liquidation_proceeds(p_yes_pct, liquidity, user_yes, user_no) ==
    IF liquidity <= 0 THEN 0
    ELSE LET r == ClampedRatio(p_yes_pct)
             s_yes == Max(0, user_yes)
             s_no == Max(0, user_no)
             sold_yes == sell_yes_proceeds_and_update_r(r, liquidity, s_yes)
             sold_no == sell_no_proceeds_and_update_r(sold_yes.new_r, liquidity, s_no)
         IN sold_yes.proceeds + sold_no.proceeds

\* computation.calculate_trade_cost
calculate_trade_cost(p_yes_pct, liquidity, quantity, share_type) ==
    IF liquidity <= 0 \/ quantity <= 0 THEN 0
    ELSE LET r == ClampedRatio(p_yes_pct)
             s == Tenths(quantity, liquidity)
         IN IF share_type = "Yes" THEN ScoreDifference(liquidity, r, 0, r + s, 0)
            ELSE ScoreDifference(liquidity, r, 0, r, s)

\* a simulate_trade that keeps the new shares in the Market
simulated_kept(market, traded_shares) ==
    [market EXCEPT !.shares = Shares(@.no + traded_shares.no, @.yes + traded_shares.yes)]

\* the Market after simulate_trade: new_shares is a local of the method
simulated(market, traded_shares) == market

\* a status that is the recorded one at every time
status_recorded(market, t) == market._status

\* Market.status at time t
status(market, t) ==
    IF market._status \notin {"closed", "open"} THEN market._status
    ELSE IF market.open_date <= t /\ t < market.close_date THEN "open"
    ELSE "closed"

(***************************************************************************)
(* The trade flow: TradeView                                               *)
(***************************************************************************)
NoUser == EmptyMap

\* TradeView.__init__: the view keeps the Market and the User objects
NewView(user_id, market_id) ==
    [open |-> TRUE, market_id |-> market_id, user_id |-> user_id,
     user_live |-> TRUE, user |-> NoUser,
     is_yes_shares |-> TRUE, quantity |-> 0, last_trade_details |-> EmptyMap,
     disabled |-> FALSE, stopped |-> FALSE, clicks |-> 0,
     awaiting |-> 0, followup |-> 0]

\* self.user: the object of the Exchange, or the one it has replaced
ViewUser(view, users) == IF view.user_live THEN users[view.user_id] ELSE view.user

\* TradeView.compute_trade_details, but for its write of last_trade_details
compute_trade_details(view, markets, users, t) ==
    LET market == markets[view.market_id]
        user == ViewUser(view, users)
        balance == user.balance
        position == PositionOf(user, market.id)
        traded_yes_shares == IF view.is_yes_shares THEN view.quantity ELSE 0
        traded_no_shares == IF view.is_yes_shares THEN 0 ELSE view.quantity
        sim == simulate_trade(market, Shares(traded_no_shares, traded_yes_shares))
        new_balance == balance - sim.cost
        new_no_shares == position.no + traded_no_shares
        new_yes_shares == position.yes + traded_yes_shares
        invalid_reason ==
            IF new_no_shares < 0 \/ new_yes_shares < 0
            THEN "Trying to sell more shares than owned"
            ELSE IF new_balance < 0 THEN "Insufficient balance"
            ELSE IF status(market, t) # "open" THEN "Market not open"
            ELSE ""
    IN [balance |-> balance, new_balance |-> new_balance,
        no_shares |-> position.no, yes_shares |-> position.yes,
        traded_yes_shares |-> traded_yes_shares, traded_no_shares |-> traded_no_shares,
        new_no_shares |-> new_no_shares, new_yes_shares |-> new_yes_shares,
        yes_price |-> yes_price(market.liquidity, market.shares),
        new_yes_price |-> sim.new_yes_price, cost |-> sim.cost,
        invalid_trade |-> invalid_reason # "", invalid_reason |-> invalid_reason]

\* the markets after compute_trade_details, which calls simulate_trade on
\* the Market of the view
quoted(view, markets) ==
    [markets EXCEPT ![view.market_id] =
        simulated(@, Shares(IF view.is_yes_shares THEN 0 ELSE view.quantity,
                            IF view.is_yes_shares THEN view.quantity ELSE 0))]

\* TradeView.update_view up to its await
update_view(view, markets, users, t) ==
    LET trade_details == compute_trade_details(view, markets, users, t)
    IN [view EXCEPT !.last_trade_details = trade_details,
                    !.disabled = trade_details.invalid_trade]

\* the button callbacks select_yes ... subtract_1, before update_view
Buttons == {"select_yes", "select_no", "add_1", "add_5", "add_10", "subtract_5", "subtract_1"}

Pressed(view, button) ==
    CASE button = "select_yes" -> [view EXCEPT !.is_yes_shares = TRUE]
      [] button = "select_no" -> [view EXCEPT !.is_yes_shares = FALSE]
      [] button = "add_1" -> [view EXCEPT !.quantity = @ + 1]
      [] button = "add_5" -> [view EXCEPT !.quantity = @ + 5]
      [] button = "add_10" -> [view EXCEPT !.quantity = @ + 10]
      [] button = "subtract_5" -> [view EXCEPT !.quantity = @ - 5]
      [] button = "subtract_1" -> [view EXCEPT !.quantity = @ - 1]

\* the ledger of the trade flow: ann holds 2 Yes shares and 100.00, bob 100.00
TradeLedger ==
    LedgerOf(<< UserUpdateEvent(1, "ann", 7),
                BalanceUpdateEvent(1, 20499, 0, 20499),
                MarketUpdateEvent(1, "q", 0, MaxTime, 10, "open"),
                LegacyEvent("trade", 1, 1, "Yes", 2, 10499, 20499, 10000),
                UserUpdateEvent(2, "bob", NoDiscordId),
                BalanceUpdateEvent(2, 10000, 0, 10000) >>, <<>>)

InitTrade ==
    /\ entries = TradeLedger
    /\ file = LegacyFile(TradeLedger)
    /\ _markets = from_ledger(TradeLedger).markets
    /\ _users = from_ledger(TradeLedger).users
    /\ _discord_user_ids = from_ledger(TradeLedger).discord
    /\ _ledger_index = from_ledger(TradeLedger).index
    /\ views = [s \in Sessions |-> NoView]
    /\ now = 0
    /\ outcome = Returned("from_ledger")

\* start_trade_flow: exchange.markets[market_id], exchange.users[user_id],
\* then the first update_view
StartTradeFlow(s, user_id, market_id) ==
    /\ ~views[s].open
    /\ \A earlier \in Sessions : earlier < s => views[earlier].open
    /\ WithinShares
    /\ LET r == Accessor(entries, _markets, _users, _discord_user_ids, _ledger_index)
           found == r.raised = NoError /\ market_id \in DOMAIN r.markets
                    /\ user_id \in DOMAIN r.users
       IN /\ _markets' = IF found THEN quoted(NewView(user_id, market_id), r.markets)
                          ELSE r.markets
          /\ _users' = r.users
          /\ _discord_user_ids' = r.discord
          /\ _ledger_index' = r.index
          /\ views' = IF found
                      THEN [KeepOrphans(views, r.orphans) EXCEPT
                              ![s] = update_view(NewView(user_id, market_id),
                                                 r.markets, r.users, now)]
                      ELSE KeepOrphans(views, r.orphans)
          /\ outcome' = IF r.raised # NoError THEN Ended("start_trade_flow", r)
                        ELSE IF ~found
                        THEN [op |-> "start_trade_flow", raised |-> "KeyError", at |-> 0]
                        ELSE Returned("start_trade_flow")
    /\ UNCHANGED <<entries, file, now>>

RECURSIVE Clicks(_, _)
Clicks(vs, n) ==
    IF n = 0 THEN 0 ELSE Clicks(vs, n - 1) + (IF vs[n].open THEN vs[n].clicks ELSE 0)

\* a button of a view that has not stopped is pressed
Dispatched(s) ==
    views[s].open /\ ~views[s].stopped /\ Clicks(views, Cardinality(Sessions)) < MaxClicks

\* select_yes, select_no, add_1, add_5, add_10, subtract_5, subtract_1
Press(s, button) ==
    /\ Dispatched(s)
    /\ views' = [views EXCEPT ![s] =
                    update_view([Pressed(@, button) EXCEPT !.clicks = @ + 1],
                                _markets, _users, now)]
    /\ _markets' = quoted(Pressed(views[s], button), _markets)
    /\ outcome' = Returned("quote")
    /\ UNCHANGED <<entries, file, _users, _discord_user_ids, _ledger_index, now>>

\* confirm, up to its first await
ConfirmClick(s) ==
    /\ Dispatched(s)
    /\ views' = [views EXCEPT ![s].clicks = @ + 1, ![s].awaiting = @ + 1]
    /\ UNCHANGED <<entries, file, exchange, now, outcome>>

\* a confirm that does not look at invalid_trade
confirm_branch_unchecked(info, trade_details) ==
    IF trade_details # info THEN "changed" ELSE "user_trade"

\* confirm after its first await: what it does with the details on display
\* and the details it computes again
confirm_branch(info, trade_details) ==
    IF trade_details # info THEN "changed"
    ELSE IF info.invalid_trade THEN "invalid"
    ELSE "user_trade"

\* confirm, from the copy of last_trade_details to the await after user_trade
ConfirmCommit(s) ==
    /\ views[s].open /\ views[s].awaiting > 0
    /\ LET view == views[s]
           info == view.last_trade_details
           user_trade(v, i) ==
               UserTradeEvent(ViewUser(v, _users).id, _markets[v.market_id].id,
                              IF v.is_yes_shares THEN "Yes" ELSE "No",
                              v.quantity, i.cost, i.balance, i.new_balance)
           again == update_view(view, _markets, _users, now)
           branch == confirm_branch(info, again.last_trade_details)
       IN /\ views' = [views EXCEPT ![s] =
                         IF branch = "user_trade"
                         THEN [again EXCEPT !.stopped = TRUE, !.awaiting = @ - 1,
                                            !.followup = @ + 1]
                         ELSE [again EXCEPT !.awaiting = @ - 1]]
          /\ entries' = IF branch = "user_trade"
                        THEN LedgerAppend(entries, user_trade(view, info), now)
                        ELSE entries
          /\ file' = IF branch = "user_trade"
                     THEN FileAppend(file, entries, user_trade(view, info), now)
                     ELSE file
          /\ _markets' = quoted(view, _markets)
          /\ outcome' = Returned(branch)
    /\ UNCHANGED <<_users, _discord_user_ids, _ledger_index, now>>

\* confirm, after its followups: self.exchange.markets[self.market.id]
ConfirmRefresh(s) ==
    /\ views[s].open /\ views[s].followup > 0
    /\ WithinShares
    /\ LET r == Accessor(entries, _markets, _users, _discord_user_ids, _ledger_index)
       IN /\ _markets' = r.markets
          /\ _users' = r.users
          /\ _discord_user_ids' = r.discord
          /\ _ledger_index' = r.index
          /\ views' = [KeepOrphans(views, r.orphans) EXCEPT ![s].followup = @ - 1]
          /\ outcome' = Ended("markets", r)
    /\ UNCHANGED <<entries, file, now>>

\* cancel
Cancel(s) ==
    /\ Dispatched(s)
    /\ views' = [views EXCEPT ![s].stopped = TRUE, ![s].clicks = @ + 1]
    /\ outcome' = Returned("cancel")
    /\ UNCHANGED <<entries, file, exchange, now>>

\* the clock
Tick ==
    /\ now < MaxTime
    /\ now' = now + 1
    /\ UNCHANGED <<entries, file, exchange, views, outcome>>

NextTrade ==
    \/ \E s \in Sessions, u \in UserIds, m \in MarketIds : StartTradeFlow(s, u, m)
    \/ \E s \in Sessions, button \in Buttons : Press(s, button)
    \/ \E s \in Sessions : ConfirmClick(s)
    \/ \E s \in Sessions : ConfirmCommit(s)
    \/ \E s \in Sessions : ConfirmRefresh(s)
    \/ \E s \in Sessions : Cancel(s)
    \/ Tick
    \/ ReadUsers

SpecTrade == InitTrade /\ [][NextTrade]_vars

(***************************************************************************)
(* The ledger alone: Ledger.from_json on a file, Ledger.append             *)
(***************************************************************************)
MaxBlankLines == 2      \* empty lines at the end of a ledger file
MaxFailures == 1        \* writes of Ledger.append that raise

\* the file Ledger.append writes: a line break after every record
RECURSIVE Written(_)
Written(es) ==
    IF es = <<>> THEN <<>> ELSE <<json_dumps(es[1]), Newline>> \o Written(Tail(es))

RECURSIVE BlankLines(_)
BlankLines(n) == IF n = 0 THEN <<>> ELSE <<Newline>> \o BlankLines(n - 1)

\* the text with its last line ended and n empty lines after it
WithBlankLines(text, n) ==
    text \o (IF text # <<>> /\ text[Len(text)] # Newline THEN <<Newline>> ELSE <<>>)
         \o BlankLines(n)

InitialFiles ==
    { NoFile, FileOf(<<>>), FileOf(Written(BaseLedger)), LegacyFile(BaseLedger),
      FileOf(Written(BaseLedger) \o <<Torn, Newline>>) }
    \cup { FileOf(WithBlankLines(Written(BaseLedger), n)) : n \in 1..MaxBlankLines }

LedgerInputs ==
    { UserUpdateEvent(2, "bob", NoDiscordId),
      BalanceUpdateEvent(1, 900000, 0, 900000),
      UserTradeEvent(1, 1, "Yes", 1, 0, 900000, 900000),
      [type |-> "dividend", num |-> 7] }

\* LEDGER = Ledger.from_json(ledger_path); no Exchange is built
InitLedger ==
    /\ \E f \in InitialFiles :
          /\ file = from_json(f).file
          /\ entries = from_json(f).entries
          /\ outcome = Ended("from_json", from_json(f))
    /\ _markets = EmptyMap
    /\ _users = EmptyMap
    /\ _discord_user_ids = EmptyMap
    /\ _ledger_index = 0
    /\ views = [s \in Sessions |-> NoView]
    /\ now = 0

\* Ledger.from_json(file) on the file as it is now; an exception leaves the
\* entries that were loaded before
FromJson ==
    /\ Alive
    /\ entries' = IF from_json(file).raised = NoError THEN from_json(file).entries
                  ELSE entries
    /\ file' = from_json(file).file
    /\ outcome' = Ended("from_json", from_json(file))
    /\ UNCHANGED <<exchange, views, now>>

\* parts of records that failed writes have left in the text
Failures(text) == Cardinality({ i \in 1..Len(text) : text[i] = Torn })

\* Ledger.append(event) with a write that raises
AppendFails(event) ==
    /\ Alive
    /\ Len(entries) < Len(BaseLedger) + MaxAppend
    /\ Failures(file.text) < MaxFailures
    /\ entries' = FailedAppend(entries, event, now)
    /\ \E written \in FailedWrites : file' = FileOf(file.text \o written)
    /\ outcome' = [op |-> "append", raised |-> "OSError", at |-> 0]
    /\ UNCHANGED <<exchange, views, now>>

NextLedger ==
    \/ \E event \in LedgerInputs : AppendEvent(event)
    \/ \E event \in LedgerInputs : AppendFails(event)
    \/ FromJson

SpecLedger == InitLedger /\ [][NextLedger]_vars

(***************************************************************************)
(* One Market: its status and its prices, and the functions of             *)
(* computation.py on its Yes price                                         *)
(***************************************************************************)
MaxInventory == 2       \* shares of a side in a market of ordinary size
MaxQuantity == 2        \* shares of one trade, shares of a side of a position

\* an inventory at which the Yes price is the float 100.0, and the least one
\* at which exp(shares / 10) overflows
Saturating == 400
Overflowing == 7098

Liquidities == {0, 10}
Inventories == (0..MaxInventory) \cup {Saturating, Overflowing}
Dates == 0..(MaxTime + 1)
Quantities == (-MaxQuantity)..MaxQuantity
TradedShares == { Shares(q, 0) : q \in Quantities } \cup { Shares(0, q) : q \in Quantities }
Positions == { Shares(no, yes) : no \in 0..MaxQuantity, yes \in 0..MaxQuantity }

MarketOf(liquidity, shares, recorded, open_date, close_date) ==
    [NewMarket(MarketUpdateEvent(1, "q", open_date, close_date, liquidity, recorded))
        EXCEPT !.shares = shares]

\* markets of every liquidity and inventory, and markets of every recorded
\* status and dates
MarketInputs ==
    { MarketOf(b, Shares(no, yes), "open", 0, MaxTime + 1) :
        b \in Liquidities, no \in Inventories, yes \in Inventories }
    \cup { MarketOf(10, Shares(0, 0), recorded, open_date, close_date) :
              recorded \in MarketStatuses, open_date \in Dates, close_date \in Dates }

InitMarket ==
    /\ entries = <<>>
    /\ file = NoFile
    /\ \E market \in MarketInputs : _markets = (market.id :> market)
    /\ _users = EmptyMap
    /\ _discord_user_ids = EmptyMap
    /\ _ledger_index = 0
    /\ views = [s \in Sessions |-> NoView]
    /\ now = 0
    /\ outcome = Returned("Market")

TheMarket == _markets[1]

\* market.status
ReadStatus ==
    /\ outcome' = [op |-> "status", value |-> status(TheMarket, now)]
    /\ UNCHANGED <<entries, file, exchange, views, now>>

\* market.yes_price and market.no_price
ReadPrices ==
    /\ outcome' = IF Division(TheMarket.liquidity) # NoError
                  THEN [op |-> "prices", raised |-> Division(TheMarket.liquidity)]
                  ELSE [op |-> "prices", raised |-> NoError,
                        yes_price |-> yes_price(TheMarket.liquidity, TheMarket.shares),
                        no_price |-> no_price(TheMarket.liquidity, TheMarket.shares)]
    /\ UNCHANGED <<entries, file, exchange, views, now>>

\* market.simulate_trade(traded_shares)
SimulateTrade(traded_shares) ==
    /\ TheMarket.shares.no + traded_shares.no >= 0
    /\ TheMarket.shares.yes + traded_shares.yes >= 0
    /\ outcome' = [op |-> "simulate_trade", traded_shares |-> traded_shares]
                      @@ simulate_trade(TheMarket, traded_shares)
    /\ UNCHANGED <<entries, file, exchange, views, now>>

\* market.simulate_liquidation_proceeds(user_shares)
SimulateLiquidationProceeds(user_shares) ==
    /\ outcome' = [op |-> "simulate_liquidation_proceeds", user_shares |-> user_shares]
                      @@ simulate_liquidation_proceeds(TheMarket, user_shares)
    /\ UNCHANGED <<entries, file, exchange, views, now>>

\* the liquidity and the Yes price a caller passes to computation.py: those
\* of the market, or a liquidity 0 with the price the inventory has at
\* liquidity 10
PriceInputs ==
    { [liquidity |-> b,
       p_yes_pct |-> yes_price(IF Division(b) = NoError THEN b ELSE 10, TheMarket.shares)] :
        b \in Liquidities }

\* computation.simulate_liquidation_proceeds(p_yes_pct, liquidity, user_yes, user_no)
ComputationSimulateLiquidationProceeds(price, user_shares) ==
    /\ outcome' = [op |-> "computation.simulate_liquidation_proceeds",
                   p_yes_pct |-> price.p_yes_pct, liquidity |-> price.liquidity,
                   user_shares |-> user_shares, raised |-> NoError,
                   value |-> computation_simulate_liquidation_proceeds(
                                 price.p_yes_pct, price.liquidity,
                                 user_shares.yes, user_shares.no)]
    /\ UNCHANGED <<entries, file, exchange, views, now>>

\* computation.calculate_trade_cost(p_yes_pct, liquidity, quantity, share_type)
CalculateTradeCost(price, quantity, share_type) ==
    /\ outcome' = [op |-> "calculate_trade_cost",
                   p_yes_pct |-> price.p_yes_pct, liquidity |-> price.liquidity,
                   quantity |-> quantity, share_type |-> share_type, raised |-> NoError,
                   value |-> calculate_trade_cost(price.p_yes_pct, price.liquidity,
                                                  quantity, share_type)]
    /\ UNCHANGED <<entries, file, exchange, views, now>>

NextMarket ==
    \/ Tick
    \/ ReadStatus
    \/ ReadPrices
    \/ \E traded_shares \in TradedShares : SimulateTrade(traded_shares)
    \/ \E user_shares \in Positions : SimulateLiquidationProceeds(user_shares)
    \/ \E price \in PriceInputs, user_shares \in Positions :
          ComputationSimulateLiquidationProceeds(price, user_shares)
    \/ \E price \in PriceInputs, quantity \in Quantities, share_type \in {"Yes", "No"} :
          CalculateTradeCost(price, quantity, share_type)

SpecMarket == InitMarket /\ [][NextMarket]_vars

(***************************************************************************)
(* Registration: the /register command, start_registration_flow,           *)
(* RegistrationView and SpreadSheetRegistrationModel. Amounts in cents     *)
(***************************************************************************)
OLD_SIGNUP_BONUS == 500000
NEW_SIGNUP_BALANCE == 1000000

MaxSubmits == 2         \* modals sent by the Yes button, all views together

\* what a user types into id_text_field
TextInputs == {"1", "2", "3", "ann", " BOB", "zed"}

\* int(old_id_or_username.strip()), None (0) when it raises
NoId == 0
PyIntText(text) ==
    CASE text = "1" -> 1 [] text = "2" -> 2 [] text = "3" -> 3 [] OTHER -> NoId

\* old_id_or_username.strip().lower()
StripLower(text) == IF text = " BOB" THEN "bob" ELSE text

\* old_user.user_name.lower()
Lower(user_name) == IF user_name = "Bob" THEN "bob" ELSE user_name

\* the ledger the registration starts from: two users of the spreadsheet
\* without a Discord id, and a market
RegistrationLedger ==
    LedgerOf(<< UserUpdateEvent(1, "ann", NoDiscordId),
                BalanceUpdateEvent(1, 10000, 0, 10000),
                UserUpdateEvent(2, "Bob", NoDiscordId),
                BalanceUpdateEvent(2, 10000, 0, 10000),
                MarketUpdateEvent(1, "q", 0, MaxTime, 10, "open") >>, <<>>)

InitRegistration ==
    /\ entries = RegistrationLedger
    /\ file = LegacyFile(RegistrationLedger)
    /\ _markets = from_ledger(RegistrationLedger).markets
    /\ _users = from_ledger(RegistrationLedger).users
    /\ _discord_user_ids = from_ledger(RegistrationLedger).discord
    /\ _ledger_index = from_ledger(RegistrationLedger).index
    /\ views = [s \in Sessions |-> NoView]
    /\ now = 0
    /\ outcome = Returned("from_ledger")

\* RegistrationView.__init__; modals counts the modals the Yes button has
\* sent and that are not submitted, sent all it has sent
RegistrationView(author) ==
    [open |-> TRUE, author |-> author, disabled |-> FALSE, modals |-> 0, sent |-> 0]

\* the exchange after an accessor
Resynced(r) ==
    /\ _markets' = r.markets
    /\ _users' = r.users
    /\ _discord_user_ids' = r.discord
    /\ _ledger_index' = r.index

\* the command /register: start_registration_flow has three parameters and
\* is called with two
Register(discord_id) ==
    /\ outcome' = [op |-> "register", discord_id |-> discord_id,
                   raised |-> "TypeError", at |-> 0]
    /\ UNCHANGED <<entries, file, exchange, views, now>>

\* start_registration_flow(interaction, Itneraction, exchange), called with
\* its three arguments; an exception of the accessor is caught
StartRegistrationFlow(s, discord_id) ==
    /\ ~views[s].open
    /\ \A earlier \in Sessions : earlier < s => views[earlier].open
    /\ LET r == Accessor(entries, _markets, _users, _discord_user_ids, _ledger_index)
           result == IF r.raised # NoError THEN "An unexpected error occurred"
                     ELSE IF discord_id \in DOMAIN r.discord THEN "You are already registered"
                     ELSE "view"
       IN /\ Resynced(r)
          /\ views' = IF result = "view"
                      THEN [views EXCEPT ![s] = RegistrationView(discord_id)]
                      ELSE views
          /\ outcome' = [op |-> "start_registration_flow", discord_id |-> discord_id,
                         raised |-> NoError, at |-> 0, result |-> result]
    /\ UNCHANGED <<entries, file, now>>

RECURSIVE Sent(_, _)
Sent(vs, n) ==
    IF n = 0 THEN 0 ELSE Sent(vs, n - 1) + (IF vs[n].open THEN vs[n].sent ELSE 0)

\* RegistrationView.yes
RegistrationYes(s, discord_id) ==
    /\ views[s].open
    /\ Sent(views, Cardinality(Sessions)) < MaxSubmits
    /\ IF discord_id # views[s].author
       THEN /\ outcome' = [op |-> "yes", discord_id |-> discord_id, raised |-> NoError,
                           at |-> 0, result |-> "You are not authorized"]
            /\ UNCHANGED views
       ELSE /\ outcome' = [op |-> "yes", discord_id |-> discord_id, raised |-> NoError,
                           at |-> 0, result |-> "modal"]
            /\ views' = [views EXCEPT ![s].modals = @ + 1, ![s].sent = @ + 1]
    /\ UNCHANGED <<entries, file, exchange, now>>

\* RegistrationView.no: (self.exchange.users) + 1 adds 1 to a dict
RegistrationNo(s, discord_id) ==
    /\ views[s].open
    /\ IF discord_id # views[s].author
       THEN /\ outcome' = [op |-> "no", discord_id |-> discord_id, raised |-> NoError,
                           at |-> 0, result |-> "You are not authorized"]
            /\ UNCHANGED <<exchange, views>>
       ELSE LET r == Accessor(entries, _markets, _users, _discord_user_ids, _ledger_index)
            IN /\ Resynced(r)
               /\ views' = [views EXCEPT ![s].disabled = TRUE]
               /\ outcome' = [op |-> "no", discord_id |-> discord_id,
                              raised |-> IF r.raised # NoError THEN r.raised ELSE "TypeError",
                              at |-> 0, result |-> "raised"]
    /\ UNCHANGED <<entries, file, now>>

\* the users on_submit finds by name: `old_id in registered_discord_ids`
\* looks for the id of the user among the Discord ids
NameMatches(users, discord, old_username) ==
    { u \in DOMAIN users : u \notin DOMAIN discord /\ Lower(users[u].user_name) = old_username }

\* the users on_submit takes for old_user: the one of the id, else the first
\* of the name (the names of RegistrationLedger differ, so there is one)
found(users, discord, text) ==
    IF PyIntText(text) \in DOMAIN users THEN {PyIntText(text)}
    ELSE NameMatches(users, discord, StripLower(text))

\* SpreadSheetRegistrationModel.on_submit, by the account the modal was sent to
OnSubmit(s, text) ==
    /\ views[s].open /\ views[s].modals > 0
    /\ LET r == Accessor(entries, _markets, _users, _discord_user_ids, _ledger_index)
           old_users == IF r.raised # NoError THEN {} ELSE found(r.users, r.discord, text)
       IN /\ Resynced(r)
          /\ views' = [views EXCEPT ![s].modals = @ - 1]
          /\ IF r.raised # NoError
             THEN /\ outcome' = [op |-> "on_submit", discord_id |-> views[s].author,
                                 raised |-> r.raised, at |-> r.at, result |-> "raised"]
                  /\ UNCHANGED <<entries, file>>
             ELSE IF old_users = {}
             THEN /\ outcome' = [op |-> "on_submit", discord_id |-> views[s].author,
                                 raised |-> NoError, at |-> 0,
                                 result |-> "Failed to find username or id"]
                  /\ UNCHANGED <<entries, file>>
             ELSE \E u \in old_users :
                    LET old_user == r.users[u]
                        update_user == UserUpdateEvent(old_user.id, old_user.user_name,
                                                       views[s].author)
                        update_balance == BalanceUpdateEvent(old_user.id, OLD_SIGNUP_BONUS,
                                              old_user.balance,
                                              old_user.balance + OLD_SIGNUP_BONUS)
                        entries1 == LedgerAppend(entries, update_user, now)
                        file1 == FileAppend(file, entries, update_user, now)
                    IN /\ entries' = LedgerAppend(entries1, update_balance, now)
                       /\ file' = FileAppend(file1, entries1, update_balance, now)
                       /\ outcome' = [op |-> "on_submit", discord_id |-> views[s].author,
                                      raised |-> NoError, at |-> 0,
                                      result |-> "Welcome back"]
    /\ UNCHANGED now

NextRegistration ==
    \/ \E discord_id \in DiscordIds : Register(discord_id)
    \/ \E s \in Sessions, discord_id \in DiscordIds : StartRegistrationFlow(s, discord_id)
    \/ \E s \in Sessions, discord_id \in DiscordIds : RegistrationYes(s, discord_id)
    \/ \E s \in Sessions, discord_id \in DiscordIds : RegistrationNo(s, discord_id)
    \/ \E s \in Sessions, text \in TextInputs : OnSubmit(s, text)

SpecRegistration == InitRegistration /\ [][NextRegistration]_vars

(***************************************************************************)
(* Replay claims                                                           *)
(***************************************************************************)
Prefix(es, n) == SubSeq(es, 1, n)

\* from_ledger on the first C events, then the rest by incremental replay
FullThenIncremental(es, C) ==
    LET f == from_ledger(Prefix(es, C))
    IN update_from_extended_ledger(es, f.markets, f.users, f.discord, f.index)

SameExchange(a, b) ==
    \/ a.raised # NoError /\ b.raised # NoError
    \/ /\ a.raised = NoError /\ b.raised = NoError
       /\ a.markets = b.markets /\ a.users = b.users /\ a.discord = b.discord

\* C1: for every split point C, full replay of the first C events followed
\* by incremental replay of the rest gives the markets, users and
\* external-id map of the full replay of the whole ledger
C1_FullEqualsIncremental ==
    \A C \in 0..Len(entries) :
        from_ledger(Prefix(entries, C)).raised = NoError
            => SameExchange(from_ledger(entries), FullThenIncremental(entries, C))

AccessorOps == {"markets", "users", "discord_user_ids"}

\* C2: in every state an accessor returns, every market inventory, every
\* user position and every balance is >= 0
C2_NonNegative ==
    (outcome.op \in AccessorOps /\ outcome.raised = NoError) =>
        /\ \A m \in DOMAIN _markets :
              _markets[m].shares.no >= 0 /\ _markets[m].shares.yes >= 0
        /\ \A u \in DOMAIN _users :
              /\ _users[u].balance >= 0
              /\ \A m \in DOMAIN _users[u].positions :
                    _users[u].positions[m].no >= 0 /\ _users[u].positions[m].yes >= 0

\* the quantity traded, by the trade events before event k, in a market on
\* one side (by one user, or by all of them when user_id = 0)
RECURSIVE TradedBefore(_, _, _, _, _)
TradedBefore(es, k, user_id, market_id, share_type) ==
    IF k <= 1 THEN 0
    ELSE TradedBefore(es, k - 1, user_id, market_id, share_type) +
         ( IF /\ es[k - 1].type = "trade"
              /\ es[k - 1].market_id = market_id
              /\ es[k - 1].share_type = share_type
              /\ (user_id = 0 \/ es[k - 1].user_id = user_id)
           THEN es[k - 1].quantity ELSE 0 )

\* trade event k would make the inventory or the position negative
OversellsAt(es, k) ==
    /\ es[k].type = "trade"
    /\ \/ TradedBefore(es, k + 1, 0, es[k].market_id, es[k].share_type) < 0
       \/ TradedBefore(es, k + 1, es[k].user_id, es[k].market_id, es[k].share_type) < 0

OffendingAt(es, k) ==
    es[k].type = "trade" /\ (OversellsAt(es, k) \/ es[k].new_balance < 0)

FirstOffending(es) ==
    IF \E k \in 1..Len(es) : OffendingAt(es, k)
    THEN CHOOSE k \in 1..Len(es) :
            OffendingAt(es, k) /\ \A j \in 1..(k - 1) : ~OffendingAt(es, j)
    ELSE 0

\* the replay stopped at event k, or before it at an event that is no trade
StoppedAt(r, es, k) ==
    /\ r.raised # NoError
    /\ r.at <= k
    /\ r.at < k => es[r.at].type # "trade"

\* C3: a ledger with a trade event that would make an inventory, a position
\* or the balance negative fails at the first such event, in full replay and
\* in incremental replay from any earlier split point
C3_FailsAtFirstOffending ==
    LET k == FirstOffending(entries)
    IN k # 0 =>
        /\ StoppedAt(from_ledger(entries), entries, k)
        /\ \A C \in 0..(k - 1) :
              from_ledger(Prefix(entries, C)).raised = NoError
                  => StoppedAt(FullThenIncremental(entries, C), entries, k)

\* every trade names a known user and a known market
WellFormed(es) ==
    \A k \in 1..Len(es) :
        /\ es[k].type # "resolution"
        /\ es[k].type = "trade" =>
              /\ \E j \in 1..Len(es) :
                    es[j].type = "user_update" /\ es[j].user_id = es[k].user_id
              /\ \E j \in 1..Len(es) :
                    es[j].type = "market_update" /\ es[j].market_id = es[k].market_id
        /\ es[k].type = "balance_update" =>
              \E j \in 1..Len(es) :
                    es[j].type = "user_update" /\ es[j].user_id = es[k].user_id

\* C4: full replay accepts every ledger whose trades keep, in ledger order,
\* every inventory and position >= 0, and the inventory it derives is the
\* sum of the traded quantities
C4_ChronologicalAccepted ==
    (WellFormed(entries) /\ \A k \in 1..Len(entries) : ~OversellsAt(entries, k)) =>
        LET r == from_ledger(entries)
        IN /\ r.raised = NoError
           /\ \A m \in DOMAIN r.markets :
                 /\ r.markets[m].shares.no = TradedBefore(entries, Len(entries) + 1, 0, m, "No")
                 /\ r.markets[m].shares.yes = TradedBefore(entries, Len(entries) + 1, 0, m, "Yes")

\* C9: when an accessor returns, the cursor is the length of the ledger and
\* the inventories are those of all the trade events appended so far
C9_AccessorUpToDate ==
    (outcome.op \in AccessorOps /\ outcome.raised = NoError) =>
        /\ _ledger_index = Len(entries)
        /\ \A m \in DOMAIN _markets :
              /\ _markets[m].shares.no = TradedBefore(entries, Len(entries) + 1, 0, m, "No")
              /\ _markets[m].shares.yes = TradedBefore(entries, Len(entries) + 1, 0, m, "Yes")

ResyncOps == AccessorOps \cup {"update_from_extended_ledger"}

\* C10: while the ledger has not grown since the last resync, a read or a
\* direct update_from_extended_ledger leaves markets, users, external-id
\* map and cursor as they are; and incremental replay of an empty suffix
\* after a full replay changes nothing
C10_ResyncIdempotent ==
    [][ /\ (outcome.op # "append" /\ outcome'.op \in ResyncOps) => UNCHANGED exchange
        /\ LET f == from_ledger(entries)
               u == update_from_extended_ledger(entries, f.markets, f.users,
                                                f.discord, f.index)
           IN f.raised = NoError => SameExchange(f, u) /\ u.raised = NoError ]_vars

(***************************************************************************)
(* Trade flow claims                                                       *)
(***************************************************************************)
TradeTypes == {"trade", "resolution", "user_trade"}

\* the balance of a user by the log: the new_balance of their last
\* balance_update or trade
RECURSIVE LogBalance(_, _, _)
LogBalance(es, k, user_id) ==
    IF k = 0 THEN 0
    ELSE IF es[k].type \in TradeTypes \cup {"balance_update"} /\ es[k].user_id = user_id
    THEN es[k].new_balance
    ELSE LogBalance(es, k - 1, user_id)

\* the position of a user by the log: the quantities of their trades
RECURSIVE LogPosition(_, _, _, _, _)
LogPosition(es, k, user_id, market_id, share_type) ==
    IF k = 0 THEN 0
    ELSE LogPosition(es, k - 1, user_id, market_id, share_type)
         + (IF es[k].type \in TradeTypes /\ es[k].user_id = user_id
               /\ es[k].market_id = market_id /\ es[k].share_type = share_type
            THEN es[k].quantity ELSE 0)

ReadStep == ReadUsers \/ \E s \in Sessions : ConfirmRefresh(s)

\* C5: after a valid trade is committed through the trade flow, the next read
\* of Exchange.markets or Exchange.users completes without error and reflects
\* the trade: the market's inventory on the traded side and the user's
\* position grow by the signed quantity, the balance is the event's
\* new_balance
C5_CommittedTradeIsRead ==
    [][ (/\ ReadStep
         /\ _ledger_index = Len(entries) - 1
         /\ entries[Len(entries)].type = "user_trade")
        => LET e == entries[Len(entries)]
               yes == e.share_type = "Yes"
               was == PositionOf(_users[e.user_id], e.market_id)
               is == PositionOf(_users'[e.user_id], e.market_id)
           IN /\ outcome'.raised = NoError
              /\ _ledger_index' = Len(entries)
              /\ _users'[e.user_id].balance = e.new_balance
              /\ _markets'[e.market_id].shares
                    = Shares(_markets[e.market_id].shares.no + (IF yes THEN 0 ELSE e.quantity),
                             _markets[e.market_id].shares.yes + (IF yes THEN e.quantity ELSE 0))
              /\ is = Shares(was.no + (IF yes THEN 0 ELSE e.quantity),
                             was.yes + (IF yes THEN e.quantity ELSE 0)) ]_vars

\* C6: in every interleaving of trade sessions a trade event is appended only
\* if it is valid against the whole log at the moment of the append: the
\* resulting position and the resulting balance of the trader, by all events
\* already in the log, are >= 0 and the recorded old_balance is the balance
\* of the trader at that moment
C6_AppendValidAgainstLog ==
    [][ Len(entries') > Len(entries)
        => LET e == entries'[Len(entries')]
               n == Len(entries)
           IN /\ e.old_balance = LogBalance(entries, n, e.user_id)
              /\ LogBalance(entries, n, e.user_id) - e.cost >= 0
              /\ LogPosition(entries, n, e.user_id, e.market_id, e.share_type)
                    + e.quantity >= 0 ]_vars

Oversell == "Trying to sell more shares than owned"

\* a step of confirm past its first await: only it takes a callback off
\* the await
Committing(s) == views[s].open /\ views'[s].awaiting < views[s].awaiting

\* C7: a trade request classified invalid (oversell, insufficient balance,
\* market not open) is never appended: Confirm on it leaves the log length
\* unchanged; and the request of a user with balance 100.00 and 2 Yes shares
\* to sell 5 Yes shares is classified as oversell
C7_InvalidNeverAppended ==
    [][ \A s \in Sessions :
          /\ (/\ Committing(s)
              /\ \/ views[s].last_trade_details.invalid_trade
                 \/ compute_trade_details(views[s], _markets, _users, now).invalid_trade)
             => Len(entries') = Len(entries)
          /\ (/\ views[s].open
              /\ ViewUser(views[s], _users).balance = 10000
              /\ PositionOf(ViewUser(views[s], _users), views[s].market_id).yes = 2
              /\ views[s].is_yes_shares
              /\ views[s].quantity = -5)
             => /\ views[s].last_trade_details.invalid_trade
                /\ views[s].last_trade_details.invalid_reason = Oversell ]_vars

\* Confirm has returned on the request to sell 5 Yes shares of the 2 held
C7_Witness ==
    \E s \in Sessions :
        /\ views[s].open
        /\ ViewUser(views[s], _users).balance = 10000
        /\ PositionOf(ViewUser(views[s], _users), views[s].market_id).yes = 2
        /\ views[s].is_yes_shares
        /\ views[s].quantity = -5
        /\ views[s].last_trade_details.invalid_reason = Oversell
        /\ views[s].awaiting = 0
        /\ outcome = Returned("invalid")
        /\ Len(entries) = Len(TradeLedger)

\* a step that ends with a quote computed: a button other than Confirm and
\* Cancel, or a Confirm that returns before user_trade
QuoteStep == outcome'.op \in {"quote", "changed", "invalid"}

\* C8: computing a trade quote is read-only: it appends nothing to the log
\* and leaves every market inventory, user balance, user position and the
\* cursor unchanged, for any quantity and side
C8_QuoteReadOnly ==
    [][ QuoteStep => UNCHANGED <<entries, _markets, _users, _ledger_index>> ]_vars

\* a quote for a purchase of No shares at a cost has been computed
C8_Witness ==
    \E s \in Sessions :
        /\ views[s].open
        /\ ~views[s].is_yes_shares
        /\ views[s].quantity > 0
        /\ views[s].last_trade_details.cost > 0
        /\ views[s].last_trade_details.traded_no_shares = views[s].quantity
        /\ outcome = Returned("quote")

(***************************************************************************)
(* Replay claims: event kinds and metadata                                 *)
(***************************************************************************)
\* the kinds of event a replay knows
HandledTypes == {"user_update", "balance_update", "market_update", "trade", "resolution"}

FirstUnhandled(es) ==
    IF \E k \in 1..Len(es) : es[k].type \notin HandledTypes
    THEN CHOOSE k \in 1..Len(es) :
            es[k].type \notin HandledTypes
            /\ \A j \in 1..(k - 1) : es[j].type \in HandledTypes
    ELSE 0

\* C11: replay of a ledger with an event whose type is not one of the handled
\* kinds fails, at that event or before it, in full replay and in
\* incremental replay; the event is never skipped
C11_UnknownKindFails ==
    LET k == FirstUnhandled(entries)
        full == from_ledger(entries)
        incremental == FullThenIncremental(entries, 0)
    IN k # 0 =>
        /\ full.raised # NoError /\ full.at <= k
        /\ incremental.raised # NoError /\ incremental.at <= k

ResyncStep == ReadMarkets \/ ReadUsers \/ ReadDiscordUserIds \/ UpdateFromExtendedLedger

\* C12: when a market_update event is appended after the Exchange was
\* constructed, the next resync succeeds: for an unknown market id it creates
\* a market with inventory (0, 0), for a known one it overwrites the metadata
\* and keeps the inventory
C12_MarketUpdateResync ==
    [][ (/\ ResyncStep
         /\ _ledger_index = Len(entries) - 1
         /\ entries[Len(entries)].type = "market_update"
         /\ entries[Len(entries)].status \in MarketStatuses)
        => LET e == entries[Len(entries)]
               m == e.market_id
           IN /\ outcome'.raised = NoError
              /\ _ledger_index' = Len(entries)
              /\ m \in DOMAIN _markets'
              /\ _markets'[m] = [NewMarket(e) EXCEPT !.shares =
                                    IF m \in DOMAIN _markets THEN _markets[m].shares
                                    ELSE Shares(0, 0)] ]_vars

\* a user_update of user_id has left every balance and position as it was,
\* and a user it has created has balance 0 and no position
UserUpdateKeeps(before, after, user_id) ==
    /\ DOMAIN after = DOMAIN before \cup {user_id}
    /\ \A u \in DOMAIN before :
          after[u].balance = before[u].balance /\ after[u].positions = before[u].positions
    /\ user_id \notin DOMAIN before =>
          after[user_id].balance = 0 /\ after[user_id].positions = EmptyMap

UserUpdateInputs == { e \in EventInputs : e.type = "user_update" }

\* C13: replaying a user_update event changes no balance and no position: a
\* known user keeps balance and positions, an unknown one is created with
\* balance 0 and no positions, every other user is unchanged; in full replay
\* (the ledger with and without the event) and in incremental replay of the
\* event on the Exchange as it is
C13_UserUpdateKeepsHoldings ==
    /\ \A k \in 1..Len(entries) :
          (entries[k].type = "user_update"
           /\ from_ledger(Prefix(entries, k - 1)).raised = NoError)
          => /\ from_ledger(Prefix(entries, k)).raised = NoError
             /\ UserUpdateKeeps(from_ledger(Prefix(entries, k - 1)).users,
                                from_ledger(Prefix(entries, k)).users,
                                entries[k].user_id)
             /\ from_ledger(Prefix(entries, k)).markets
                    = from_ledger(Prefix(entries, k - 1)).markets
    /\ \A e \in UserUpdateInputs :
          LET r == update_from_extended_ledger(
                      LedgerAppend(Prefix(entries, _ledger_index), e, now),
                      _markets, _users, _discord_user_ids, _ledger_index)
          IN /\ r.raised = NoError
             /\ UserUpdateKeeps(_users, r.users, e.user_id)
             /\ r.markets = _markets

\* a resync has replayed the user_update that renames a user who holds a
\* balance and a Yes share
C13_Witness ==
    /\ outcome.op \in ResyncOps /\ outcome.raised = NoError
    /\ _ledger_index = Len(entries)
    /\ entries[Len(entries)].type = "user_update"
    /\ entries[Len(entries)].user_id = 1
    /\ entries[Len(entries)].user_name = "bob"
    /\ _users[1].user_name = "bob"
    /\ _users[1].balance = 900000
    /\ PositionOf(_users[1], 1) = Shares(0, 1)

\* the newest event of a type for an id, 0 if there is none
Latest(es, type, id) ==
    LET of == { k \in 1..Len(es) :
                  /\ es[k].type = type
                  /\ IF type = "user_update" THEN es[k].user_id = id
                     ELSE es[k].market_id = id }
    IN IF of = {} THEN 0 ELSE CHOOSE k \in of : \A j \in of : j <= k

\* names and metadata are those of the newest user_update and market_update
LastWriterWins(es, r) ==
    /\ \A u \in DOMAIN r.users :
          /\ Latest(es, "user_update", u) # 0
          /\ r.users[u].user_name = es[Latest(es, "user_update", u)].user_name
    /\ \A m \in DOMAIN r.markets :
          /\ Latest(es, "market_update", m) # 0
          /\ [r.markets[m] EXCEPT !.shares = Shares(0, 0)]
                = NewMarket(es[Latest(es, "market_update", m)])

\* C14: after replay of any ledger, each user's name and each market's
\* metadata are those of the newest user_update / market_update for that id,
\* in full replay and in incremental replay (of the user_update and
\* market_update events after any split point) alike
C14_LastWriterWins ==
    /\ from_ledger(entries).raised = NoError
          => LastWriterWins(entries, from_ledger(entries))
    /\ \A C \in 0..Len(entries) :
          (/\ from_ledger(Prefix(entries, C)).raised = NoError
           /\ \A k \in (C + 1)..Len(entries) :
                 \/ entries[k].type = "user_update"
                 \/ entries[k].type = "market_update"
                    /\ entries[k].status \in MarketStatuses)
          => /\ FullThenIncremental(entries, C).raised = NoError
             /\ LastWriterWins(entries, FullThenIncremental(entries, C))

\* the events of a trade: the legacy import writes "trade", Ledger.user_trade
\* writes "user_trade"
TradeKinds == {"trade", "user_trade"}

\* the new_balance of the last balance_update or trade event of a user among
\* the first k events, 0 if there is none
RECURSIVE CarriedBalance(_, _, _)
CarriedBalance(es, k, user_id) ==
    IF k = 0 THEN 0
    ELSE IF es[k].type \in TradeKinds \cup {"balance_update"} /\ es[k].user_id = user_id
    THEN es[k].new_balance
    ELSE CarriedBalance(es, k - 1, user_id)

\* C15: after replay of any ledger each user's balance is the new_balance of
\* the last balance_update or trade event of that user in ledger order, 0 if
\* there is none; after full replay and when an accessor has returned
C15_BalanceIsCarried ==
    /\ from_ledger(entries).raised = NoError =>
          \A u \in DOMAIN from_ledger(entries).users :
              from_ledger(entries).users[u].balance
                  = CarriedBalance(entries, Len(entries), u)
    /\ (outcome.op \in AccessorOps /\ outcome.raised = NoError) =>
          \A u \in DOMAIN _users :
              _users[u].balance = CarriedBalance(entries, Len(entries), u)

\* the share counts of an Exchange: the inventory of every market and the
\* position of every user in every market
ShareCounts(r) ==
    [markets |-> [m \in DOMAIN r.markets |-> r.markets[m].shares],
     positions |-> [u \in DOMAIN r.users |->
                      [m \in MarketIds |-> PositionOf(r.users[u], m)]]]

ResolutionInputs == { e \in EventInputs : e.type = "resolution" }

\* C16: replaying a resolution event changes no share count: every market's
\* inventory and every user's position in every market are after the event
\* what they were before it; in full replay (the ledger with and without
\* the event) and in incremental replay of the event on the Exchange as it is
C16_ResolutionKeepsShares ==
    /\ \A k \in 1..Len(entries) :
          (/\ entries[k].type = "resolution"
           /\ from_ledger(Prefix(entries, k - 1)).raised = NoError
           /\ from_ledger(Prefix(entries, k)).raised = NoError)
          => ShareCounts(from_ledger(Prefix(entries, k)))
                = ShareCounts(from_ledger(Prefix(entries, k - 1)))
    /\ \A e \in ResolutionInputs :
          LET r == update_from_extended_ledger(
                      LedgerAppend(Prefix(entries, _ledger_index), e, now),
                      _markets, _users, _discord_user_ids, _ledger_index)
          IN ShareCounts(r) = ShareCounts([markets |-> _markets, users |-> _users])

(***************************************************************************)
(* Ledger claims                                                           *)
(***************************************************************************)
\* C17: after any sequence of Ledger.append calls on a ledger that started
\* empty or was loaded from a file, the i-th entry (from 0) carries the
\* sequence number i: the numbers are unique, increase from 0 and are never
\* used again
C17_SequenceNumbers ==
    \A i \in 1..Len(entries) : entries[i].num = i - 1

\* a ledger that started empty holds two appended events that came with a
\* number of their own
C17_Witness ==
    /\ outcome = Returned("append")
    /\ Len(entries) = 2
    /\ \A i \in 1..2 : entries[i].type = "dividend" /\ entries[i].num = i - 1

C19_ReloadGivesEntries ==
    Alive => /\ from_json(file).raised = NoError
             /\ from_json(file).entries = entries

\* C20: Ledger.from_json tolerates empty lines at the end: the file with one
\* or more empty lines after its last record loads and yields the records
\* before them
C20_TrailingBlankLines ==
    from_json(file).raised = NoError =>
        \A n \in 1..MaxBlankLines :
            /\ from_json(FileOf(WithBlankLines(file.text, n))).raised = NoError
            /\ from_json(FileOf(WithBlankLines(file.text, n))).entries
                  = from_json(file).entries

\* the types of record a ledger is made of
KnownTypes == HandledTypes \cup {"user_trade"}

\* a line that is the JSON text of one record of a known type
KnownRecord(line) ==
    Len(line) = 1 /\ line[1].kind = "json" /\ line[1].value.type \in KnownTypes

\* C21: loading a log whose file has a line that is not empty and is not a
\* record of a known type fails: Ledger.from_json raises, or
\* Exchange.from_ledger on the loaded entries does; the line is not skipped
C21_UnknownLineFails ==
    LET lines == splitlines(file.text)
        loaded == from_json(file)
    IN (\E i \in 1..Len(lines) : lines[i] # <<>> /\ ~KnownRecord(lines[i]))
         => \/ loaded.raised # NoError
            \/ from_ledger(loaded.entries).raised # NoError

FailedStep == outcome'.op = "append" /\ outcome'.raised = "OSError"

\* C22: a Ledger.append whose write raises leaves the entries in memory as
\* they were, every reader of them included, and uses no sequence number:
\* the next append numbers its event as the failed one would have been
C22_FailedAppendLeavesEntries ==
    [][FailedStep =>
        /\ entries' = entries
        /\ from_ledger(entries') = from_ledger(entries)
        /\ \A event \in LedgerInputs :
              Stamped(entries', event, now').num = Stamped(entries, event, now).num]_vars

C22_Witness ==
    /\ outcome.op = "append" /\ outcome.raised = "OSError"
    /\ Failures(file.text) > 0
    /\ Len(entries) > 0
    /\ from_json(file).raised # NoError

C24_OneIdPerUser ==
    Alive =>
        /\ \A d \in DOMAIN _discord_user_ids : _discord_user_ids[d] \in DOMAIN _users
        /\ \A d1, d2 \in DOMAIN _discord_user_ids :
              _discord_user_ids[d1] = _discord_user_ids[d2] => d1 = d2

\* C25: over appends, reads and updates, and a new start that does not
\* raise, the market ids and the user ids of the derived maps never shrink:
\* an id that is there stays there
C25_IdsNeverShrink ==
    [][Alive' =>
        /\ DOMAIN _markets \subseteq DOMAIN _markets'
        /\ DOMAIN _users \subseteq DOMAIN _users']_vars

\* a read that raised part-way after users were added
C25_Witness ==
    /\ outcome.op \in ResyncOps
    /\ outcome.raised # NoError
    /\ DOMAIN _users = {1, 2}
    /\ DOMAIN _markets = {1}

\* C26: for a market of liquidity above 0 and any inventory, one with
\* exp(shares / liquidity) beyond the floats included, yes_price and no_price
\* are numbers between 0 and 100 whose sum is 100
C26_PricesSumTo100 ==
    (outcome.op = "prices" /\ TheMarket.liquidity > 0) =>
        /\ outcome.raised = NoError
        /\ IsFinite(outcome.yes_price) /\ IsFinite(outcome.no_price)
        /\ 0 <= outcome.yes_price /\ outcome.yes_price <= 1000000
        /\ 0 <= outcome.no_price /\ outcome.no_price <= 1000000
        /\ outcome.yes_price + outcome.no_price = 1000000

\* the Yes price is 0 or 100
SaturatedPrice(p_yes_pct) == p_yes_pct \in {0, 1000000}

\* the liquidity is not above 0, or the price of the market is 0 or 100
DegenerateMarket(market) ==
    \/ market.liquidity <= 0
    \/ SaturatedPrice(yes_price(market.liquidity, market.shares))

\* C27: each of the four pricing functions returns 0, without an exception,
\* when the liquidity is not above 0, when the quantity is not above 0 and
\* when the price of the market is 0 or 100
C27_DegenerateGivesZero ==
    /\ ( /\ outcome.op = "simulate_trade"
         /\ \/ DegenerateMarket(TheMarket)
            \/ outcome.traded_shares.no + outcome.traded_shares.yes <= 0 )
       => (outcome.raised = NoError /\ outcome.cost = 0)
    /\ ( /\ outcome.op = "simulate_liquidation_proceeds"
         /\ \/ DegenerateMarket(TheMarket)
            \/ outcome.user_shares = Shares(0, 0) )
       => (outcome.raised = NoError /\ outcome.value = 0)
    /\ ( /\ outcome.op = "computation.simulate_liquidation_proceeds"
         /\ \/ outcome.liquidity <= 0
            \/ SaturatedPrice(outcome.p_yes_pct)
            \/ outcome.user_shares = Shares(0, 0) )
       => (outcome.raised = NoError /\ outcome.value = 0)
    /\ ( /\ outcome.op = "calculate_trade_cost"
         /\ \/ outcome.liquidity <= 0
            \/ SaturatedPrice(outcome.p_yes_pct)
            \/ outcome.quantity <= 0 )
       => (outcome.raised = NoError /\ outcome.value = 0)

\* the market with the shares of a trade gone through
After(market, traded_shares) ==
    [market EXCEPT !.shares = Shares(@.no + traded_shares.no, @.yes + traded_shares.yes)]

\* C28: for a market of liquidity above 0 and a position, the proceeds of
\* Market.simulate_liquidation_proceeds are the proceeds of selling the Yes
\* shares, rounded to cents, plus those of selling the No shares at the price
\* after that sale, rounded to cents; and
\* computation.simulate_liquidation_proceeds, given the Yes price and the
\* liquidity of the market, returns the same value
C28_LiquidationProceeds ==
    (outcome.op = "simulate_liquidation_proceeds" /\ TheMarket.liquidity > 0) =>
        LET yes_sold == Shares(0, -outcome.user_shares.yes)
            no_sold == Shares(-outcome.user_shares.no, 0)
        IN /\ outcome.raised = NoError
           /\ outcome.value
                = FSub(FNeg(simulate_trade(TheMarket, yes_sold).cost),
                       simulate_trade(After(TheMarket, yes_sold), no_sold).cost)
           /\ outcome.value
                = computation_simulate_liquidation_proceeds(
                      yes_price(TheMarket.liquidity, TheMarket.shares),
                      TheMarket.liquidity,
                      outcome.user_shares.yes, outcome.user_shares.no)

\* C29: for a market of liquidity above 0 and any inventory, the cost of a
\* trade is, within a cent, the cost of a first trade plus the cost of a
\* second trade from the inventory the first one leaves
C29_PathIndependent ==
    (outcome.op = "simulate_trade" /\ TheMarket.liquidity > 0) =>
        \A second \in TradedShares :
            LET first == outcome.traded_shares
                middle == After(TheMarket, first)
                both == Shares(first.no + second.no, first.yes + second.yes)
                direct == simulate_trade(TheMarket, both).cost
                by_steps == FAdd(outcome.cost, simulate_trade(middle, second).cost)
            IN (middle.shares.no + second.no >= 0 /\ middle.shares.yes + second.yes >= 0)
                 => /\ IsFinite(direct) /\ IsFinite(by_steps)
                    /\ Abs(direct - by_steps) <= 1

(***************************************************************************)
(* Trade flow claims: the round trip                                       *)
(***************************************************************************)
\* C30: when the newest event is a purchase of q shares by a trader and the
\* trader then asks for the sale of the same q shares of the same side in the
\* same market, the balance the sale leaves is within 1 cent of the balance
\* before the purchase
C30_BuyThenSellRestores ==
    [][ \A s \in Sessions, button \in Buttons :
          LET e == entries[Len(entries)]
              view == views'[s]
          IN ( /\ Press(s, button)
               /\ e.type = "user_trade" /\ e.quantity > 0
               /\ view.user_id = e.user_id /\ view.market_id = e.market_id
               /\ view.is_yes_shares = (e.share_type = "Yes")
               /\ view.quantity = -e.quantity )
             => Abs(view.last_trade_details.new_balance - e.old_balance) <= 1 ]_vars

(***************************************************************************)
(* Replay claims: conservation, single application, frame                  *)
(***************************************************************************)
\* the shares of a side that the users hold in a market
RECURSIVE HeldBy(_, _, _, _)
HeldBy(users, ids, market_id, side) ==
    IF ids = {} THEN 0
    ELSE LET u == CHOOSE x \in ids : TRUE
         IN PositionOf(users[u], market_id)[side]
            + HeldBy(users, ids \ {u}, market_id, side)

\* C31: in every state of a live Exchange, for every market and each side,
\* the inventory of the market is the sum of the positions of all users on
\* that side in that market
C31_SharesConserved ==
    Alive =>
        \A m \in DOMAIN _markets : \A side \in {"no", "yes"} :
            _markets[m].shares[side] = HeldBy(_users, DOMAIN _users, m, side)

\* the quantities of the events of type "trade" among the first k entries,
\* by market and side
RECURSIVE TradedInto(_, _, _, _)
TradedInto(es, k, market_id, share_type) ==
    IF k = 0 THEN 0
    ELSE TradedInto(es, k - 1, market_id, share_type)
         + (IF es[k].type = "trade" /\ es[k].market_id = market_id
               /\ es[k].share_type = share_type
            THEN es[k].quantity ELSE 0)

\* C32: a read or a call of update_from_extended_ledger that raises leaves
\* the markets, the users and the cursor as they were before it, and after
\* any read the inventory of a market counts each trade event of the log at
\* most once
C32_FoldedAtMostOnce ==
    [][ ResyncStep =>
          /\ outcome'.raised # NoError => UNCHANGED <<_markets, _users, _ledger_index>>
          /\ \A m \in DOMAIN _markets' :
                /\ _markets'[m].shares.yes <= Max(0, TradedInto(entries, Len(entries), m, "Yes"))
                /\ _markets'[m].shares.no <= Max(0, TradedInto(entries, Len(entries), m, "No")) ]_vars

(***************************************************************************)
(* Trade flow claims: one event per session, the balance chain             *)
(***************************************************************************)
\* C33: the trade events the trade sessions have appended are at most as
\* many as the sessions that were started: no session appends two
C33_OneEventPerSession ==
    Cardinality({ k \in (Len(TradeLedger) + 1)..Len(entries) : entries[k].type = "user_trade" })
        <= Cardinality({ s \in Sessions : views[s].open })

\* the events that carry old_balance and new_balance
BalanceEvents == {"balance_update", "trade", "user_trade", "resolution"}

\* C34: in the log of the trade flow every event with a balance has as its
\* old_balance the new_balance of the event with a balance that the same
\* user had before it (0 if there is none), and the new_balance of a trade
\* is its old_balance minus its cost
C34_BalanceChain ==
    \A k \in 1..Len(entries) :
        entries[k].type \in BalanceEvents =>
            /\ entries[k].old_balance = LogBalance(entries, k - 1, entries[k].user_id)
            /\ entries[k].type \in TradeTypes =>
                  entries[k].new_balance = entries[k].old_balance - entries[k].cost

(***************************************************************************)
(* Registration claims                                                     *)
(***************************************************************************)
\* the entries the registration has appended
Registered == (Len(RegistrationLedger) + 1)..Len(entries)

\* C37: over all registration flows each user gets the bonus of a
\* re-registration at most once, and a user that has a Discord id is not
\* given the Discord id of another account
C37_OneBonusOneAccount ==
    /\ \A u \in UserIds :
          Cardinality({ k \in Registered :
                          /\ entries[k].type = "balance_update"
                          /\ entries[k].user_id = u
                          /\ entries[k].delta = OLD_SIGNUP_BONUS }) <= 1
    /\ \A k \in Registered : \A j \in 1..(k - 1) :
          ( /\ entries[k].type = "user_update" /\ entries[j].type = "user_update"
            /\ entries[j].user_id = entries[k].user_id
            /\ entries[j].discord_id # NoDiscordId )
          => entries[k].discord_id = entries[j].discord_id

\* C38: the No button, pressed by the account of the view, appends a
\* user_update with a user id no user has and the Discord id of the account,
\* then a balance_update of that user to 10,000; after it the Discord id is
\* in discord_user_ids
C38_NoRegistersNewUser ==
    [][ \A s \in Sessions, discord_id \in DiscordIds :
          (RegistrationNo(s, discord_id) /\ discord_id = views[s].author) =>
              /\ outcome'.raised = NoError
              /\ Len(entries') = Len(entries) + 2
              /\ LET update_user == entries'[Len(entries) + 1]
                     update_balance == entries'[Len(entries) + 2]
                 IN /\ update_user.type = "user_update"
                    /\ update_user.user_id \notin DOMAIN _users'
                    /\ update_user.discord_id = discord_id
                    /\ update_balance.type = "balance_update"
                    /\ update_balance.user_id = update_user.user_id
                    /\ update_balance.new_balance = NEW_SIGNUP_BALANCE
                    /\ discord_id \in DOMAIN Accessor(entries', _markets', _users',
                                                      _discord_user_ids', _ledger_index').discord
      ]_vars

(***************************************************************************)
(* Market claims: a market recorded as closed                              *)
(***************************************************************************)
\* C35: Market.status of a market whose recorded status is closed is never
\* open, whatever the time and the dates of the market
C35_ClosedNeverOpen ==
    (outcome.op = "status" /\ TheMarket._status = "closed") => outcome.value # "open"

(***************************************************************************)
(* Replay claims: the frame of a trade                                     *)
(***************************************************************************)
\* the share counts with the quantity of a trade added on its side
Added(shares, e) ==
    IF e.share_type = "Yes" THEN Shares(shares.no, shares.yes + e.quantity)
    ELSE Shares(shares.no + e.quantity, shares.yes)

\* the markets after the trade e: the named side of the named market moves
MarketsFrame(before, after, e) ==
    /\ DOMAIN after = DOMAIN before
    /\ after = [before EXCEPT ![e.market_id].shares = Added(@, e)]

\* the users after the trade e: the named side of the position of the named
\* user in the named market moves, and the balance is the new_balance
UsersFrame(before, after, e) ==
    /\ DOMAIN after = DOMAIN before
    /\ \A u \in DOMAIN before :
          IF u # e.user_id THEN after[u] = before[u]
          ELSE /\ after[u].id = before[u].id
               /\ after[u].user_name = before[u].user_name
               /\ after[u].balance = e.new_balance
               /\ \A m \in MarketIds :
                     PositionOf(after[u], m)
                        = IF m = e.market_id THEN Added(PositionOf(before[u], m), e)
                          ELSE PositionOf(before[u], m)

\* the trade at the end of the ledger is replayed by from_ledger and by
\* update_from_extended_ledger of market/exchange.py
C36_FrameOfMarketExchange ==
    (Len(entries) > 0 /\ entries[Len(entries)].type = "trade") =>
        LET n == Len(entries)
            e == entries[n]
            before == from_ledger(Prefix(entries, n - 1))
            full == from_ledger(entries)
            incremental == update_from_extended_ledger(entries, before.markets, before.users,
                                                       before.discord, n - 1)
        IN /\ (before.raised = NoError /\ full.raised = NoError) =>
                  /\ MarketsFrame(before.markets, full.markets, e)
                  /\ UsersFrame(before.users, full.users, e)
                  /\ full.discord = before.discord
           /\ (before.raised = NoError /\ incremental.raised = NoError) =>
                  /\ MarketsFrame(before.markets, incremental.markets, e)
                  /\ UsersFrame(before.users, incremental.users, e)
                  /\ incremental.discord = before.discord

\* C36: replaying the trade event at the end of the ledger, by from_ledger
\* and update_from_extended_ledger of market/exchange.py and by
\* _markets_from_ledger of src/exchange.py, changes only the named side of
\* the inventory of the named market, the named side of the position of the
\* named user in that market and the balance of that user; a Yes trade goes
\* to the yes count
C36_TradeFrame ==
    /\ C36_FrameOfMarketExchange
    /\ (Len(entries) > 0 /\ entries[Len(entries)].type = "trade") =>
          LET n == Len(entries)
              before == src_markets_from_ledger(Prefix(entries, n - 1), now)
              after == src_markets_from_ledger(entries, now)
          IN (before.raised = NoError /\ after.raised = NoError) =>
                MarketsFrame(before.markets, after.markets, entries[n])

====
